---- MODULE Spec2Model ----
(***************************************************************************)
(* custom::vector<T, A> (src/vector.h) and custom::stack<T> (src/stack.h). *)
(*                                                                         *)
(* The heap is a finite pool of buffer addresses.  Every buffer is a       *)
(* sequence of slots; a slot holds a constructed T or is raw storage.      *)
(* Every operation of the classes is an operator from a machine state      *)
(* [vec, heap, ev] to the set of machine states it can end in (the         *)
(* allocator chooses the address), so that operations compose the way the  *)
(* code calls them: push_back calls reserve, operator=(vector&&) calls     *)
(* clear, shrink_to_fit and swap.  ev counts the allocator calls of the    *)
(* operation in progress.                                                  *)
(***************************************************************************)
EXTENDS Integers, Sequences, FiniteSets, TLC

VARIABLES vec, heap, shadow, last

vars == <<vec, heap, shadow, last>>

\* ---------------------------------------------------------------- bounds
\* Largest capacity a buffer of the model may have.
MaxCap == 4
\* Longest initializer list a caller passes.
MaxList == 2
\* Largest capacity of a vector where two vectors are in play.
PairCap == 2
\* Longest run of pushes where the reallocations of a run are counted.
MaxPushes == 8

\* ------------------------------------------------------------- constants
nullptr == 0
\* T() for the element type (value-initialised int).
DefaultT == 0
\* A slot of raw storage: allocated, holding no constructed T.
Raw == -1
\* A(), the default-constructed allocator.
DefaultAlloc == 0

Objs == {"a", "b"}
Vals == {0, 1, 2}
\* The buffer addresses of the heap.  Two objects own at most one buffer
\* each and an operation holds at most one more, so three never run out.
Addrs == {1, 2, 3}
\* The allocators the callers pass: the default argument A().
Allocs == {DefaultAlloc}
\* An allocator with a state of its own, which A() does not have.
OtherAlloc == 1
\* The allocators the callers pass where the allocator has state.
StatefulAllocs == {DefaultAlloc, OtherAlloc}
\* The initializer lists the callers pass.
Lists == UNION {[1..n -> Vals] : n \in 0..MaxList}
\* The values and lists passed where two vectors are in play.
PairVals == {0, 1}
PairLists == UNION {[1..n -> PairVals] : n \in 0..PairCap}

\* ------------------------------------------------------------ the state
\* An object that is not constructed (before its constructor, after its
\* destructor).
NoObject ==
  [kind |-> "none", alloc |-> DefaultAlloc, data |-> nullptr,
   numCapacity |-> 0, numElements |-> 0]

\* A buffer address the allocator does not have handed out.
FreeBuf == [live |-> FALSE, by |-> DefaultAlloc, slots |-> <<>>]

ZeroEv == [allocate |-> 0, deallocate |-> 0, construct |-> 0, destroy |-> 0,
           assign |-> 0]

\* The machine state an operation starts from.  oom says whether the
\* allocator can run out of memory during the operation; thrown says that
\* std::bad_alloc is propagating out of it.
Cur == [vec |-> vec, heap |-> heap, ev |-> ZeroEv,
        oom |-> FALSE, thrown |-> FALSE]

\* The operation's result becomes the program state.
Commit(S, op) ==
  /\ vec' = S.vec
  /\ heap' = S.heap
  /\ last' = [op |-> op, ev |-> S.ev]

FreeAddrs(S) == {p \in Addrs : ~S.heap[p].live}

\* ------------------------------------------------------- the allocator
\* alloc.allocate(n): a fresh buffer of n raw slots.  For n = 0 the result
\* is unspecified: a null pointer, or a unique non-null pointer to a buffer
\* of no slots.  Where memory can run out the call can also throw
\* std::bad_alloc and hand out nothing.  Yields the set of [st, p] outcomes.
allocate(S, a, n) ==
  LET counted == [S EXCEPT !.ev.allocate = @ + 1]
      fresh == {[st |-> [counted EXCEPT !.heap[p] =
                           [live |-> TRUE, by |-> a,
                            slots |-> [i \in 1..n |-> Raw]]],
                 p |-> p] : p \in FreeAddrs(S)}
      failed == IF S.oom
                THEN {[st |-> [counted EXCEPT !.thrown = TRUE], p |-> nullptr]}
                ELSE {}
  IN  (IF n = 0 THEN {[st |-> counted, p |-> nullptr]} \cup fresh
       ELSE fresh) \cup failed

\* alloc.deallocate(p, n): hands the buffer back; a null p frees nothing.
deallocate(S, a, p, n) ==
  IF p = nullptr THEN S
  ELSE [S EXCEPT !.heap[p] = FreeBuf, !.ev.deallocate = @ + 1]

\* alloc.construct(data + i, t)
construct(S, p, i, t) ==
  [S EXCEPT !.heap[p].slots[i + 1] = t, !.ev.construct = @ + 1]

\* alloc.destroy(data + i)
destroy(S, p, i) ==
  [S EXCEPT !.heap[p].slots[i + 1] = Raw, !.ev.destroy = @ + 1]

\* data[i], read.  Outside a live buffer's slots the value read is
\* indeterminate, as raw storage is.
at(S, p, i) ==
  IF p \in Addrs /\ i + 1 \in DOMAIN S.heap[p].slots
  THEN S.heap[p].slots[i + 1] ELSE Raw

\* data[i] = t, the element's assignment operator
assign(S, p, i, t) ==
  [S EXCEPT !.heap[p].slots[i + 1] = t, !.ev.assign = @ + 1]

\* for (i = lo; i < hi; i++) alloc.destroy(p + i);
RECURSIVE destroyLoop(_, _, _, _)
destroyLoop(S, p, i, hi) ==
  IF i < hi THEN destroyLoop(destroy(S, p, i), p, i + 1, hi) ELSE S

\* for (i = lo; i < hi; i++) alloc.construct(p + i, t);
RECURSIVE fillLoop(_, _, _, _, _)
fillLoop(S, p, i, hi, t) ==
  IF i < hi THEN fillLoop(construct(S, p, i, t), p, i + 1, hi, t) ELSE S

\* for (i = lo; i < hi; i++) alloc.construct(p + i, src[i]);
RECURSIVE copyLoop(_, _, _, _, _)
copyLoop(S, p, src, i, hi) ==
  IF i < hi THEN copyLoop(construct(S, p, i, at(S, src, i)), p, src, i + 1, hi)
  ELSE S

\* The loop of reserve leaving the moved-from elements undestroyed.
RECURSIVE moveLoop_nodestroy(_, _, _, _, _)
moveLoop_nodestroy(S, dataNew, data, i, hi) ==
  IF i < hi
  THEN moveLoop_nodestroy(construct(S, dataNew, i, at(S, data, i)),
                          dataNew, data, i + 1, hi)
  ELSE S

\* for (i = 0; i < n; i++) { construct(dataNew + i, move(data[i])); destroy(data + i); }
RECURSIVE moveLoop(_, _, _, _, _)
moveLoop(S, dataNew, data, i, hi) ==
  IF i < hi
  THEN moveLoop(destroy(construct(S, dataNew, i, at(S, data, i)), data, i),
                dataNew, data, i + 1, hi)
  ELSE S

\* ------------------------------------------------------ vector: status
size(S, v) == S.vec[v].numElements
capacity(S, v) == S.vec[v].numCapacity
empty(S, v) == S.vec[v].numElements = 0

\* The elements v[0] .. v[size-1], read through operator[].
subscript(S, v, index) == at(S, S.vec[v].data, index)
back(S, v) == at(S, S.vec[v].data, S.vec[v].numElements - 1)
front(S, v) == at(S, S.vec[v].data, 0)
Elems(S, v) == [i \in 1..S.vec[v].numElements |-> subscript(S, v, i - 1)]

\* ------------------------------------------------------ vector: insert
reserve(S, v, newCapacity) ==
  LET me == S.vec[v] IN
  IF newCapacity <= me.numCapacity THEN {S}
  ELSE { LET S2 == moveLoop(r.st, r.p, me.data, 0, me.numElements)
             S3 == deallocate(S2, me.alloc, me.data, me.numCapacity)
         IN  IF r.st.thrown THEN r.st
             ELSE [S3 EXCEPT !.vec[v].data = r.p,
                             !.vec[v].numCapacity = newCapacity]
         : r \in allocate(S, me.alloc, newCapacity) }

\* push_back growing the buffer by one slot, not to twice its size.
push_back_byone(S, v, t) ==
  LET me == S.vec[v]
      grown == IF me.numCapacity = me.numElements
               THEN reserve(S, v, me.numCapacity + 1)
               ELSE {S}
  IN  { IF G.thrown THEN G
        ELSE [construct(G, G.vec[v].data, G.vec[v].numElements, t)
                EXCEPT !.vec[v].numElements = @ + 1] : G \in grown }

push_back(S, v, t) ==
  LET me == S.vec[v]
      grown == IF me.numCapacity = me.numElements
               THEN reserve(S, v, IF me.numCapacity # 0
                                  THEN me.numCapacity * 2 ELSE 1)
               ELSE {S}
  IN  { IF G.thrown THEN G
        ELSE [construct(G, G.vec[v].data, G.vec[v].numElements, t)
                EXCEPT !.vec[v].numElements = @ + 1] : G \in grown }

\* push_back(T&&) growing the buffer one element before it is full.
push_back_move_eager(S, v, t) ==
  LET me == S.vec[v]
      grown == IF me.numCapacity <= me.numElements + 1
               THEN reserve(S, v, IF me.numCapacity # 0
                                  THEN me.numCapacity * 2 ELSE 1)
               ELSE {S}
  IN  { IF G.thrown THEN G
        ELSE [construct(G, G.vec[v].data, G.vec[v].numElements, t)
                EXCEPT !.vec[v].numElements = @ + 1] : G \in grown }

\* push_back(T&&): the element is move-constructed from the caller's value.
push_back_move(S, v, t) ==
  LET me == S.vec[v]
      grown == IF me.numCapacity = me.numElements
               THEN reserve(S, v, IF me.numCapacity # 0
                                  THEN me.numCapacity * 2 ELSE 1)
               ELSE {S}
  IN  { IF G.thrown THEN G
        ELSE [construct(G, G.vec[v].data, G.vec[v].numElements, t)
                EXCEPT !.vec[v].numElements = @ + 1] : G \in grown }

\* ------------------------------------------------------ vector: remove
\* pop_back without the test for an empty vector.
pop_back_unguarded(S, v) ==
  LET me == S.vec[v] IN
  {[destroy(S, me.data, me.numElements - 1)
      EXCEPT !.vec[v].numElements = @ - 1]}

\* pop_back that destroys the last element and leaves numElements as it was.
pop_back_nodecrement(S, v) ==
  LET me == S.vec[v] IN
  IF me.numElements # 0
  THEN {destroy(S, me.data, me.numElements - 1)}
  ELSE {S}

pop_back(S, v) ==
  LET me == S.vec[v] IN
  IF me.numElements # 0
  THEN {[destroy(S, me.data, me.numElements - 1)
           EXCEPT !.vec[v].numElements = @ - 1]}
  ELSE {S}


\* Runs F on every outcome of a previous call: the calls are in sequence.
Bind(outcomes, F(_)) == UNION {F(X) : X \in outcomes}

clear(S, v) ==
  {[destroyLoop(S, S.vec[v].data, 0, S.vec[v].numElements)
      EXCEPT !.vec[v].numElements = 0]}

\* The loop of shrink_to_fit stopping one element early.
RECURSIVE shrinkLoop_short(_, _, _, _, _)
shrinkLoop_short(S, newData, data, i, hi) ==
  IF i < hi - 1
  THEN shrinkLoop_short(destroy(construct(S, newData, i, at(S, data, i)), data, i),
                        newData, data, i + 1, hi)
  ELSE S

\* for (i = 0; i < n; i++) { construct(newData + i, data[i]); destroy(data + i); }
RECURSIVE shrinkLoop(_, _, _, _, _)
shrinkLoop(S, newData, data, i, hi) ==
  IF i < hi
  THEN shrinkLoop(destroy(construct(S, newData, i, at(S, data, i)), data, i),
                  newData, data, i + 1, hi)
  ELSE S

shrink_to_fit(S, v) ==
  LET me == S.vec[v] IN
  IF me.numCapacity > me.numElements
  THEN IF me.numElements > 0
       THEN { LET S2 == shrinkLoop(r.st, r.p, me.data, 0, me.numElements)
                  S3 == deallocate(S2, me.alloc, me.data, me.numCapacity)
              IN  IF r.st.thrown THEN r.st
                  ELSE [S3 EXCEPT !.vec[v].data = r.p,
                                  !.vec[v].numCapacity = me.numElements]
              : r \in allocate(S, me.alloc, me.numElements) }
       ELSE {[deallocate(S, me.alloc, me.data, me.numCapacity)
                EXCEPT !.vec[v].data = nullptr, !.vec[v].numCapacity = 0]}
  ELSE {S}

\* ------------------------------------------------------ vector: resize
\* resize(newElements) cutting the count and leaving the cut elements
\* undestroyed.
resize_nodestroy(S, v, newElements) ==
  LET me == S.vec[v] IN
  IF newElements > me.numElements
  THEN LET grown == IF newElements > me.numCapacity
                    THEN reserve(S, v, newElements) ELSE {S}
       IN  {IF G.thrown THEN G
            ELSE [fillLoop(G, G.vec[v].data, me.numElements, newElements, DefaultT)
                    EXCEPT !.vec[v].numElements = newElements] : G \in grown}
  ELSE {[S EXCEPT !.vec[v].numElements = newElements]}

\* resize(newElements): the new elements are default-constructed.
resize(S, v, newElements) ==
  LET me == S.vec[v] IN
  IF newElements < me.numElements
  THEN {[destroyLoop(S, me.data, newElements, me.numElements)
           EXCEPT !.vec[v].numElements = newElements]}
  ELSE IF newElements > me.numElements
  THEN LET grown == IF newElements > me.numCapacity
                    THEN reserve(S, v, newElements) ELSE {S}
       IN  {IF G.thrown THEN G
            ELSE [fillLoop(G, G.vec[v].data, me.numElements, newElements, DefaultT)
                    EXCEPT !.vec[v].numElements = newElements] : G \in grown}
  ELSE {[S EXCEPT !.vec[v].numElements = newElements]}

\* resize(newElements, t): the new elements are copies of t.
resize_fill(S, v, newElements, t) ==
  LET me == S.vec[v] IN
  IF newElements < me.numElements
  THEN {[destroyLoop(S, me.data, newElements, me.numElements)
           EXCEPT !.vec[v].numElements = newElements]}
  ELSE IF newElements > me.numElements
  THEN LET grown == IF newElements > me.numCapacity
                    THEN reserve(S, v, newElements) ELSE {S}
       IN  {IF G.thrown THEN G
            ELSE [fillLoop(G, G.vec[v].data, me.numElements, newElements, t)
                    EXCEPT !.vec[v].numElements = newElements] : G \in grown}
  ELSE {[S EXCEPT !.vec[v].numElements = newElements]}

\* v[index] = t through the reference operator[] returns.
subscript_write(S, v, index, t) == {assign(S, S.vec[v].data, index, t)}

\* ------------------------------------------------------ vector: construct
\* vector(const A& a = A())
vector_default(S, v, a) ==
  {[S EXCEPT !.vec[v] = [kind |-> "vector", alloc |-> a, data |-> nullptr,
                         numCapacity |-> 0, numElements |-> 0]]}

\* vector(size_t num, const T& t, const A& a = A())
vector_fill(S, v, num, t, a) ==
  { [fillLoop(r.st, r.p, 0, num, t)
       EXCEPT !.vec[v] = [kind |-> "vector", alloc |-> a, data |-> r.p,
                          numCapacity |-> num, numElements |-> num]]
    : r \in allocate(S, a, num) }

\* for (it = l.begin(); it != l.end(); it++, current++) construct(current, *it);
RECURSIVE listLoop(_, _, _, _)
listLoop(S, p, l, i) ==
  IF i < Len(l) THEN listLoop(construct(S, p, i, l[i + 1]), p, l, i + 1) ELSE S

\* vector(const std::initializer_list<T>& l, const A& a = A())
vector_list(S, v, l, a) ==
  { [listLoop(r.st, r.p, l, 0)
       EXCEPT !.vec[v] = [kind |-> "vector", alloc |-> a, data |-> r.p,
                          numCapacity |-> Len(l), numElements |-> Len(l)]]
    : r \in allocate(S, a, Len(l)) }

\* vector(size_t num, const A& a = A())
vector_sized(S, v, num, a) ==
  { [fillLoop(r.st, r.p, 0, num, DefaultT)
       EXCEPT !.vec[v] = [kind |-> "vector", alloc |-> a, data |-> r.p,
                          numCapacity |-> num, numElements |-> num]]
    : r \in allocate(S, a, num) }

\* A copy constructor that copies the pointer, not the elements.
vector_copy_shallow(S, v, rhs) ==
  LET r == S.vec[rhs] IN
  {[S EXCEPT !.vec[v] = [kind |-> "vector", alloc |-> DefaultAlloc,
                         data |-> r.data,
                         numCapacity |-> r.numCapacity,
                         numElements |-> r.numElements]]}

\* A copy constructor that allocates rhs's capacity, not rhs's size.
vector_copy_slack(S, v, rhs) ==
  LET r == S.vec[rhs] IN
  IF ~empty(S, rhs)
  THEN { [copyLoop(n.st, n.p, r.data, 0, r.numElements)
            EXCEPT !.vec[v] = [kind |-> "vector", alloc |-> DefaultAlloc,
                               data |-> n.p,
                               numCapacity |-> r.numCapacity,
                               numElements |-> r.numElements]]
         : n \in allocate(S, DefaultAlloc, r.numCapacity) }
  ELSE {[S EXCEPT !.vec[v] = [kind |-> "vector", alloc |-> DefaultAlloc,
                              data |-> nullptr,
                              numCapacity |-> 0, numElements |-> 0]]}

\* vector(const vector& rhs): alloc is default-constructed, never copied.
vector_copy(S, v, rhs) ==
  LET r == S.vec[rhs] IN
  IF ~empty(S, rhs)
  THEN { [copyLoop(n.st, n.p, r.data, 0, r.numElements)
            EXCEPT !.vec[v] = [kind |-> "vector", alloc |-> DefaultAlloc,
                               data |-> n.p,
                               numCapacity |-> r.numElements,
                               numElements |-> r.numElements]]
         : n \in allocate(S, DefaultAlloc, r.numElements) }
  ELSE {[S EXCEPT !.vec[v] = [kind |-> "vector", alloc |-> DefaultAlloc,
                              data |-> nullptr,
                              numCapacity |-> 0, numElements |-> 0]]}

\* The move constructor leaving rhs.numElements as it was.
vector_move_keepcount(S, v, rhs) ==
  LET r == S.vec[rhs] IN
  {[S EXCEPT !.vec[v] = [kind |-> "vector", alloc |-> DefaultAlloc,
                         data |-> r.data,
                         numCapacity |-> r.numCapacity,
                         numElements |-> r.numElements],
             !.vec[rhs].data = nullptr,
             !.vec[rhs].numCapacity = 0]}

\* vector(vector&& rhs): alloc is default-constructed, never moved.
vector_move(S, v, rhs) ==
  LET r == S.vec[rhs] IN
  {[S EXCEPT !.vec[v] = [kind |-> "vector", alloc |-> DefaultAlloc,
                         data |-> r.data,
                         numCapacity |-> r.numCapacity,
                         numElements |-> r.numElements],
             !.vec[rhs].data = nullptr,
             !.vec[rhs].numElements = 0,
             !.vec[rhs].numCapacity = 0]}

\* A destructor that destroys the elements and keeps the buffer allocated.
vector_destroy_nofree(S, v) ==
  LET me == S.vec[v]
      S1 == destroyLoop(S, me.data, 0, me.numElements)
  IN  {[S1 EXCEPT !.vec[v] = NoObject]}

\* ~vector()
vector_destroy(S, v) ==
  LET me == S.vec[v]
      S1 == destroyLoop(S, me.data, 0, me.numElements)
      S2 == deallocate(S1, me.alloc, me.data, me.numCapacity)
  IN  {[S2 EXCEPT !.vec[v] = NoObject]}

\* ------------------------------------------------------ vector: assign
swap(S, v, rhs) ==
  {[S EXCEPT !.vec[v].data = S.vec[rhs].data,
             !.vec[rhs].data = S.vec[v].data,
             !.vec[v].numElements = S.vec[rhs].numElements,
             !.vec[rhs].numElements = S.vec[v].numElements,
             !.vec[v].numCapacity = S.vec[rhs].numCapacity,
             !.vec[rhs].numCapacity = S.vec[v].numCapacity,
             !.vec[v].alloc = S.vec[rhs].alloc,
             !.vec[rhs].alloc = S.vec[v].alloc]}

\* The assignment loop left out: only the tail is handled.
assignLoop_none(S, data, rhsData, i, rhsN, n) == S

\* for (i = 0; i < rhs.numElements && i < numElements; i++) data[i] = rhs.data[i];
RECURSIVE assignLoop(_, _, _, _, _, _)
assignLoop(S, data, rhsData, i, rhsN, n) ==
  IF i < rhsN /\ i < n
  THEN assignLoop(assign(S, data, i, at(S, rhsData, i)),
                  data, rhsData, i + 1, rhsN, n)
  ELSE S

\* Copy assignment as clear, reserve and copy, with no test for this == &rhs.
assign_copy_clearfirst(S, v, rhs) ==
  Bind(Bind(clear(S, v), LAMBDA X : reserve(X, v, X.vec[rhs].numElements)),
       LAMBDA Y : {[copyLoop(Y, Y.vec[v].data, Y.vec[rhs].data,
                             0, Y.vec[rhs].numElements)
                      EXCEPT !.vec[v].numElements = Y.vec[rhs].numElements]})

\* Copy assignment that releases the buffer and allocates a new one whatever
\* the capacity it has.
assign_copy_realloc(S, v, rhs) ==
  LET me == S.vec[v]
      r == S.vec[rhs]
  IN
  IF v # rhs /\ r.numElements > 0
  THEN LET S1 == destroyLoop(S, me.data, 0, me.numElements)
           S2 == IF me.data # nullptr
                 THEN deallocate(S1, me.alloc, me.data, me.numCapacity)
                 ELSE S1
           S3 == [S2 EXCEPT !.vec[v].numCapacity = r.numElements]
       IN  { IF n.st.thrown THEN n.st
             ELSE [copyLoop(n.st, n.p, r.data, 0, r.numElements)
                     EXCEPT !.vec[v].data = n.p,
                            !.vec[v].numElements = r.numElements]
             : n \in allocate(S3, me.alloc, r.numElements) }
  ELSE {[S EXCEPT !.vec[v].numElements = r.numElements]}

\* operator=(const vector& rhs)
assign_copy(S, v, rhs) ==
  LET me == S.vec[v]
      r == S.vec[rhs]
  IN
  IF v # rhs
  THEN IF me.numCapacity < r.numElements
       THEN LET S1 == destroyLoop(S, me.data, 0, me.numElements)
                S2 == IF me.data # nullptr
                      THEN deallocate(S1, me.alloc, me.data, me.numCapacity)
                      ELSE S1
                S3 == [S2 EXCEPT !.vec[v].numCapacity = r.numElements]
            IN  { IF n.st.thrown THEN n.st
                  ELSE [copyLoop(n.st, n.p, r.data, 0, r.numElements)
                          EXCEPT !.vec[v].data = n.p,
                                 !.vec[v].numElements = r.numElements]
                  : n \in allocate(S3, me.alloc, r.numElements) }
       ELSE LET S1 == assignLoop(S, me.data, r.data, 0,
                                 r.numElements, me.numElements)
                S2 == IF r.numElements < me.numElements
                      THEN destroyLoop(S1, me.data, r.numElements, me.numElements)
                      ELSE IF r.numElements > me.numElements
                      THEN copyLoop(S1, me.data, r.data,
                                    me.numElements, r.numElements)
                      ELSE S1
            IN  {[S2 EXCEPT !.vec[v].numElements = r.numElements]}
  ELSE {S}

\* operator=(vector&& rhs)
assign_move(S, v, rhs) ==
  Bind(Bind(clear(S, v), LAMBDA X : shrink_to_fit(X, v)),
       LAMBDA X : swap(X, v, rhs))

\* ---------------------------------------------------------------- stack
\* stack(): the container is default-constructed.
stack_default(S, s) ==
  {[T EXCEPT !.vec[s].kind = "stack"] : T \in vector_default(S, s, DefaultAlloc)}

top(S, s) == back(S, s)
push(S, s, t) == push_back(S, s, t)
push_move(S, s, t) == push_back_move(S, s, t)
pop(S, s) == pop_back(S, s)
stack_size(S, s) == size(S, s)
stack_empty(S, s) == empty(S, s)

\* stack(const Container& rhs): the container is copy-constructed.
stack_container_copy(S, s, rhs) ==
  {[T EXCEPT !.vec[s].kind = "stack"] : T \in vector_copy(S, s, rhs)}

\* stack(Container&& rhs): the container is move-constructed.
stack_container_move(S, s, rhs) ==
  {[T EXCEPT !.vec[s].kind = "stack"] : T \in vector_move(S, s, rhs)}

\* The local variable of std::swap, next to the caller's objects.
WithTemp(S) ==
  [S EXCEPT !.vec = [o \in Objs \cup {"tmp"} |->
                       IF o \in Objs THEN S.vec[o] ELSE NoObject]]

WithoutTemp(S) == [S EXCEPT !.vec = [o \in Objs |-> S.vec[o]]]

\* A swap made of a copy and two copy assignments.
std_swap_bycopy(S, a, b) ==
  LET s1 == vector_copy(WithTemp(S), "tmp", a)
      s2 == Bind(s1, LAMBDA X : assign_copy(X, a, b))
      s3 == Bind(s2, LAMBDA X : assign_copy(X, b, "tmp"))
      s4 == Bind(s3, LAMBDA X : vector_destroy(X, "tmp"))
  IN  {WithoutTemp(X) : X \in s4}

\* std::swap(a, b) of two containers, the template of the standard library:
\* Container tmp(std::move(a)); a = std::move(b); b = std::move(tmp);
\* and tmp is destroyed on return.
std_swap(S, a, b) ==
  LET s1 == vector_move(WithTemp(S), "tmp", a)
      s2 == Bind(s1, LAMBDA X : assign_move(X, a, b))
      s3 == Bind(s2, LAMBDA X : assign_move(X, b, "tmp"))
      s4 == Bind(s3, LAMBDA X : vector_destroy(X, "tmp"))
  IN  {WithoutTemp(X) : X \in s4}

\* stack::swap(rhs)
stack_swap(S, s, rhs) == std_swap(S, s, rhs)

\* ~stack(): the container is destroyed.
stack_destroy(S, s) == vector_destroy(S, s)

\* -------------------------------------------------------------- actions
IsVector(v) == vec[v].kind = "vector"
IsStack(s) == vec[s].kind = "stack"
IsNone(o) == vec[o].kind = "none"

\* shadow[o] is the sequence of values the callers have put in container o
\* and not taken out: what the calls made so far ask o to hold.
\* A call with one of its outcomes; Sh(S) is what the call asks the
\* containers to hold afterwards.
Call(outcomes, op, Sh(_)) ==
  \E S \in outcomes : Commit(S, op) /\ shadow' = Sh(S)

\* The call asks o to hold seq.
Holds(o, seq) == [shadow EXCEPT ![o] = seq]

\* A constructor, destructor, assignment or swap: the objects os hold what
\* the call has put there.
Fresh(S, os) == [o \in Objs |-> IF o \in os THEN Elems(S, o) ELSE shadow[o]]

DropLast(seq) == IF seq = <<>> THEN seq ELSE SubSeq(seq, 1, Len(seq) - 1)

\* seq cut or padded with t to length n
Resized(seq, n, t) ==
  [i \in 1..n |-> IF i <= Len(seq) THEN seq[i] ELSE t]

StackDefault(s) ==
  /\ IsNone(s)
  /\ Call(stack_default(Cur, s), "stack", LAMBDA S : Holds(s, <<>>))

StackDestroy(s) ==
  /\ IsStack(s)
  /\ Call(stack_destroy(Cur, s), "stack_destroy", LAMBDA S : Holds(s, <<>>))

\* The capacity v has after one more push_back.
Grown(v) ==
  IF vec[v].numCapacity # vec[v].numElements THEN vec[v].numCapacity
  ELSE IF vec[v].numCapacity # 0 THEN vec[v].numCapacity * 2 ELSE 1

\* The pushes are made while the buffer stays within max slots.
Push(s, t, max) ==
  /\ IsStack(s)
  /\ Grown(s) <= max
  /\ Call(push(Cur, s, t), "push",
          LAMBDA S : Holds(s, Append(shadow[s], t)))

PushMove(s, t, max) ==
  /\ IsStack(s)
  /\ Grown(s) <= max
  /\ Call(push_move(Cur, s, t), "push",
          LAMBDA S : Holds(s, Append(shadow[s], t)))

Pop(s) ==
  /\ IsStack(s)
  /\ Call(pop(Cur, s), "pop", LAMBDA S : Holds(s, DropLast(shadow[s])))

VectorDefault(v, a) ==
  IsNone(v) /\ Call(vector_default(Cur, v, a), "vector", LAMBDA S : Fresh(S, {v}))

VectorSized(v, num, a) ==
  IsNone(v) /\ Call(vector_sized(Cur, v, num, a), "vector_sized",
          LAMBDA S : Fresh(S, {v}))

VectorFill(v, num, t, a) ==
  IsNone(v) /\ Call(vector_fill(Cur, v, num, t, a), "vector_fill",
          LAMBDA S : Fresh(S, {v}))

VectorList(v, l, a) ==
  IsNone(v) /\ Call(vector_list(Cur, v, l, a), "vector_list",
          LAMBDA S : Fresh(S, {v}))

VectorCopy(v, rhs) ==
  /\ IsNone(v) /\ IsVector(rhs)
  /\ Call(vector_copy(Cur, v, rhs), "vector_copy", LAMBDA S : Fresh(S, {v, rhs}))

VectorMove(v, rhs) ==
  /\ IsNone(v) /\ IsVector(rhs)
  /\ Call(vector_move(Cur, v, rhs), "vector_move", LAMBDA S : Fresh(S, {v, rhs}))

VectorDestroy(v) ==
  IsVector(v) /\ Call(vector_destroy(Cur, v), "vector_destroy",
          LAMBDA S : Fresh(S, {v}))

PushBack(v, t, max) ==
  IsVector(v) /\ Grown(v) <= max /\ Call(push_back(Cur, v, t), "push_back",
          LAMBDA S : Holds(v, Append(shadow[v], t)))

PushBackMove(v, t, max) ==
  IsVector(v) /\ Grown(v) <= max /\ Call(push_back_move(Cur, v, t), "push_back",
          LAMBDA S : Holds(v, Append(shadow[v], t)))

PopBack(v) ==
  /\ IsVector(v)
  /\ Call(pop_back(Cur, v), "pop_back",
          LAMBDA S : Holds(v, DropLast(shadow[v])))

Reserve(v, newCapacity) ==
  IsVector(v) /\ Call(reserve(Cur, v, newCapacity), "reserve",
          LAMBDA S : shadow)

Resize(v, newElements) ==
  IsVector(v) /\ Call(resize(Cur, v, newElements), "resize",
          LAMBDA S : Holds(v, Resized(shadow[v], newElements, DefaultT)))

ResizeFill(v, newElements, t) ==
  IsVector(v) /\ Call(resize_fill(Cur, v, newElements, t), "resize",
          LAMBDA S : Holds(v, Resized(shadow[v], newElements, t)))

ShrinkToFit(v) ==
  /\ IsVector(v)
  /\ Call(shrink_to_fit(Cur, v), "shrink_to_fit", LAMBDA S : shadow)

Clear(v) ==
  /\ IsVector(v)
  /\ Call(clear(Cur, v), "clear", LAMBDA S : Holds(v, <<>>))

\* v[index] = t; the caller keeps index < size().
SubscriptWrite(v, index, t) ==
  /\ IsVector(v)
  /\ index < vec[v].numElements
  /\ Call(subscript_write(Cur, v, index, t), "subscript",
          LAMBDA S : Holds(v, [shadow[v] EXCEPT ![index + 1] = t]))

AssignCopy(v, rhs) ==
  /\ IsVector(v) /\ IsVector(rhs)
  /\ Call(assign_copy(Cur, v, rhs), "assign_copy", LAMBDA S : Fresh(S, {v, rhs}))

AssignMove(v, rhs) ==
  /\ IsVector(v) /\ IsVector(rhs)
  /\ Call(assign_move(Cur, v, rhs), "assign_move", LAMBDA S : Fresh(S, {v, rhs}))

Swap(v, rhs) ==
  /\ IsVector(v) /\ IsVector(rhs)
  /\ Call(swap(Cur, v, rhs), "swap", LAMBDA S : Fresh(S, {v, rhs}))

StackContainerCopy(s, rhs) ==
  /\ IsNone(s) /\ IsVector(rhs)
  /\ Call(stack_container_copy(Cur, s, rhs), "stack_container",
          LAMBDA S : Fresh(S, {s, rhs}))

StackContainerMove(s, rhs) ==
  /\ IsNone(s) /\ IsVector(rhs)
  /\ Call(stack_container_move(Cur, s, rhs), "stack_container",
          LAMBDA S : Fresh(S, {s, rhs}))

StackSwap(s, rhs) ==
  /\ IsStack(s) /\ IsStack(rhs)
  /\ Call(stack_swap(Cur, s, rhs), "stack_swap", LAMBDA S : Fresh(S, {s, rhs}))

\* The machine state of an operation in a run whose allocator calls are
\* counted from the start of the run.
Counted == [Cur EXCEPT !.ev = last.ev]

\* push_back, either overload, in a counted run of at most MaxPushes.
PushBackCounted(v, t) ==
  /\ IsVector(v)
  /\ vec[v].numElements < MaxPushes
  /\ Call(push_back(Counted, v, t) \cup push_back_move(Counted, v, t),
          "push_back", LAMBDA S : Holds(v, Append(shadow[v], t)))

\* stack::push, either overload, in a counted run of at most MaxPushes.
PushCounted(s, t) ==
  /\ IsStack(s)
  /\ vec[s].numElements < MaxPushes
  /\ Call(push(Counted, s, t) \cup push_move(Counted, s, t),
          "push", LAMBDA S : Holds(s, Append(shadow[s], t)))

\* The machine state an operation starts from where memory can run out.
Oom == [Cur EXCEPT !.oom = TRUE]

\* std::bad_alloc leaves an operation on v: the outcome where allocate
\* threw.  The callers make no further call on v, which stays as the
\* exception left it.
Throws(outcomes, v) ==
  \E S \in outcomes :
    /\ S.thrown
    /\ Commit([S EXCEPT !.vec[v].kind = "thrown"], "bad_alloc")
    /\ shadow' = shadow

ReserveThrows(v, newCapacity) ==
  IsVector(v) /\ Throws(reserve(Oom, v, newCapacity), v)

PushBackThrows(v, t) ==
  IsVector(v) /\ Throws(push_back(Oom, v, t) \cup push_back_move(Oom, v, t), v)

ResizeThrows(v, newElements) ==
  IsVector(v) /\ Throws(resize(Oom, v, newElements)
                          \cup resize_fill(Oom, v, newElements, DefaultT), v)

ShrinkToFitThrows(v) ==
  IsVector(v) /\ Throws(shrink_to_fit(Oom, v), v)

AssignCopyThrows(v, rhs) ==
  IsVector(v) /\ IsVector(rhs) /\ Throws(assign_copy(Oom, v, rhs), v)

\* ------------------------------------------------------- specifications
EmptyHeap == [p \in Addrs |-> FreeBuf]
NoObjects == [o \in Objs |-> NoObject]
Start == [vec |-> NoObjects, heap |-> EmptyHeap, ev |-> ZeroEv,
          oom |-> FALSE, thrown |-> FALSE]

\* One stack, "a", just constructed by stack().
InitStack ==
  /\ \E S \in stack_default(Start, "a") : vec = S.vec /\ heap = S.heap
  /\ shadow = [o \in Objs |-> <<>>]
  /\ last = [op |-> "stack", ev |-> ZeroEv]

NextStack ==
  \/ \E t \in Vals : Push("a", t, MaxCap)
  \/ \E t \in Vals : PushMove("a", t, MaxCap)
  \/ Pop("a")

SpecStack == InitStack /\ [][NextStack]_vars

\* No object constructed yet.
Init ==
  /\ vec = NoObjects
  /\ heap = EmptyHeap
  /\ shadow = [o \in Objs |-> <<>>]
  /\ last = [op |-> "start", ev |-> ZeroEv]

\* The operations on one vector, with values from V, lists from L and
\* sizes, capacities and indices up to max.
One(v, V, max, L) ==
  \/ \E a \in Allocs : VectorDefault(v, a)
  \/ \E a \in Allocs, num \in 0..max : VectorSized(v, num, a)
  \/ \E a \in Allocs, num \in 0..max, t \in V : VectorFill(v, num, t, a)
  \/ \E a \in Allocs, l \in L : VectorList(v, l, a)
  \/ VectorDestroy(v)
  \/ \E t \in V : PushBack(v, t, max)
  \/ \E t \in V : PushBackMove(v, t, max)
  \/ PopBack(v)
  \/ \E n \in 0..max : Reserve(v, n)
  \/ \E n \in 0..max : Resize(v, n)
  \/ \E n \in 0..max, t \in V : ResizeFill(v, n, t)
  \/ ShrinkToFit(v)
  \/ Clear(v)
  \/ \E index \in 0..max, t \in V : SubscriptWrite(v, index, t)

\* The assignments of one vector to another (or to itself).
Assign(v, rhs) ==
  \/ AssignCopy(v, rhs)
  \/ AssignMove(v, rhs)
  \/ Swap(v, rhs)

\* The construction of one vector from another.
From(v, rhs) ==
  \/ VectorCopy(v, rhs)
  \/ VectorMove(v, rhs)

\* The operations on one stack.
OneStack(s, V, max) ==
  \/ StackDefault(s)
  \/ StackDestroy(s)
  \/ \E t \in V : Push(s, t, max)
  \/ \E t \in V : PushMove(s, t, max)
  \/ Pop(s)

\* One object, "a", constructed as a vector or as a stack: every operation
\* on a single container.
NextVec ==
  \/ One("a", Vals, MaxCap, Lists)
  \/ Assign("a", "a")
  \/ OneStack("a", Vals, MaxCap)

SpecVec == Init /\ [][NextVec]_vars

\* Two vectors, "a" and "b": every operation, on one and between the two.
Next ==
  \E v \in Objs :
    \/ One(v, PairVals, PairCap, PairLists)
    \/ \E rhs \in Objs : Assign(v, rhs) \/ From(v, rhs)

Spec == Init /\ [][Next]_vars

\* Two vectors where every allocation of reserve, push_back, resize,
\* shrink_to_fit and copy assignment can also fail.
NextOOM ==
  \E v \in Objs :
    \/ One(v, PairVals, PairCap, PairLists)
    \/ \E rhs \in Objs : Assign(v, rhs) \/ From(v, rhs)
    \/ \E n \in 0..PairCap : ReserveThrows(v, n)
    \/ \E t \in PairVals : PushBackThrows(v, t)
    \/ \E n \in 0..PairCap : ResizeThrows(v, n)
    \/ ShrinkToFitThrows(v)
    \/ \E rhs \in Objs : AssignCopyThrows(v, rhs)

SpecOOM == Init /\ [][NextOOM]_vars

\* Two vectors constructed with allocators that have a state: the
\* constructors, the destructor and the operations that allocate, free or
\* hand over a buffer.
NextAlloc ==
  \E v \in Objs :
    \/ \E a \in StatefulAllocs : VectorDefault(v, a)
    \/ \E a \in StatefulAllocs, l \in PairLists : VectorList(v, l, a)
    \/ VectorDestroy(v)
    \/ \E t \in PairVals : PushBack(v, t, PairCap)
    \/ PopBack(v)
    \/ ShrinkToFit(v)
    \/ \E rhs \in Objs : Assign(v, rhs) \/ From(v, rhs)

SpecAlloc == Init /\ [][NextAlloc]_vars

\* Two stacks, default-constructed or constructed from a vector, which are
\* pushed, popped and swapped.
NextStacks ==
  \E s \in Objs :
    \/ OneStack(s, PairVals, PairCap)
    \/ \E num \in 0..PairCap : VectorSized(s, num, DefaultAlloc)
    \/ VectorDestroy(s)
    \/ \E rhs \in Objs : \/ StackContainerCopy(s, rhs)
                         \/ StackContainerMove(s, rhs)
                         \/ StackSwap(s, rhs)

SpecStacks == Init /\ [][NextStacks]_vars

\* One empty container, "a", a vector or a stack just default-constructed.
InitPush ==
  /\ \E S \in vector_default(Start, "a", DefaultAlloc)
               \cup stack_default(Start, "a") :
       vec = S.vec /\ heap = S.heap
  /\ shadow = [o \in Objs |-> <<>>]
  /\ last = [op |-> "start", ev |-> ZeroEv]

\* A run of pushes and nothing else.
NextPush ==
  \/ \E t \in PairVals : PushBackCounted("a", t)
  \/ \E t \in PairVals : PushCounted("a", t)

SpecPush == InitPush /\ [][NextPush]_vars

\* ================================================================ claims
\* The state after the step, for the formulas about a step.
After == [vec |-> vec', heap |-> heap', ev |-> last'.ev,
          oom |-> FALSE, thrown |-> FALSE]

\* C1: for any sequence of push and pop on an initially empty stack, size()
\* is the number of values pushed and not yet popped, empty() is true
\* exactly when size() is 0, and top() of a non-empty stack is the value
\* pushed last among those not yet popped.
C1_StackIsLifo ==
  \A s \in Objs : IsStack(s) =>
    /\ stack_size(Cur, s) = Len(shadow[s])
    /\ stack_empty(Cur, s) <=> (stack_size(Cur, s) = 0)
    /\ ~stack_empty(Cur, s) => top(Cur, s) = shadow[s][Len(shadow[s])]

\* Three values were pushed, the buffer grew to 4 slots, and one was popped.
C1_Witness ==
  /\ IsStack("a")
  /\ last.op = "pop"
  /\ Len(shadow["a"]) = 2
  /\ capacity(Cur, "a") = 4
  /\ shadow["a"][1] # shadow["a"][2]

\* C2: after any sequence of push_back, pop_back, reserve, resize,
\* shrink_to_fit, clear and writes through operator[], v[i] for every
\* i < size() is the value last constructed or assigned at index i: no
\* reallocation changes, reorders or drops a live element.
C2_ElementsKept ==
  \A v \in Objs : IsVector(v) =>
    /\ size(Cur, v) = Len(shadow[v])
    /\ \A i \in 0..(size(Cur, v) - 1) : subscript(Cur, v, i) = shadow[v][i + 1]

\* shrink_to_fit has just moved two different elements to a new buffer.
C2_Witness ==
  /\ IsVector("a")
  /\ last.op = "shrink_to_fit"
  /\ last.ev.allocate = 1
  /\ size(Cur, "a") >= 2
  /\ subscript(Cur, "a", 0) # subscript(Cur, "a", 1)

\* C3: in every state reached through constructors, push_back, pop_back,
\* reserve, resize, shrink_to_fit, clear, copy and move assignment and swap,
\* every vector has 0 <= size() <= capacity().
C3_SizeWithinCapacity ==
  \A v \in Objs : IsVector(v) =>
    0 <= size(Cur, v) /\ size(Cur, v) <= capacity(Cur, v)

\* A copy assignment has just filled a receiver to its capacity.
C3_Witness ==
  /\ last.op = "assign_copy"
  /\ last.ev.construct > 0
  /\ IsVector("a") /\ size(Cur, "a") = 2
  /\ IsVector("b") /\ size(Cur, "b") = 2 /\ capacity(Cur, "b") = 2

\* C4: after every public operation that completes, the buffer pointer of a
\* vector is null if and only if its capacity is 0.
C4_NullIffNoCapacity ==
  \A v \in Objs : IsVector(v) =>
    (vec[v].data = nullptr <=> capacity(Cur, v) = 0)

\* What a move from rhs into v has to have done in the step just taken.
MoveTransfers(v, rhs) ==
  /\ vec'[v].data = vec[rhs].data
  /\ vec'[v].numElements = vec[rhs].numElements
  /\ vec'[v].numCapacity = vec[rhs].numCapacity
  /\ Elems(After, v) = Elems(Cur, rhs)
  /\ last'.ev.construct = 0 /\ last'.ev.assign = 0 /\ last'.ev.allocate = 0
  /\ last'.ev.destroy = vec[v].numElements
  /\ vec[v].data # nullptr => ~heap'[vec[v].data].live
  /\ vec'[rhs].numElements = 0
  /\ vec'[rhs].numCapacity = 0
  /\ vec'[rhs].data = nullptr

\* C5: after move-constructing v from rhs, or v = move(rhs) with v and rhs
\* distinct, v holds rhs's former buffer, count, capacity and elements, no
\* element was constructed or copied, v's former elements are destroyed and
\* its former buffer released, and rhs is empty with a null buffer.
C5_MoveTransfers ==
  [][\A v \in Objs, rhs \in Objs :
       (v # rhs /\ last'.op \in {"vector_move", "assign_move"}
          /\ (VectorMove(v, rhs) \/ AssignMove(v, rhs)))
       => MoveTransfers(v, rhs)]_vars

\* The outcomes of the mutations of v that the callers can make.
Mutations(v) ==
  UNION {
    UNION {subscript_write(Cur, v, index, t) :
             index \in 0..(size(Cur, v) - 1), t \in PairVals},
    UNION {push_back(Cur, v, t) \cup push_back_move(Cur, v, t) : t \in PairVals},
    pop_back(Cur, v),
    UNION {resize(Cur, v, n) : n \in 0..PairCap},
    UNION {resize_fill(Cur, v, n, t) : n \in 0..PairCap, t \in PairVals},
    clear(Cur, v) }

\* In S, v and w do not hold the same buffer.
OwnBuffers(S, v, w) ==
  S.vec[v].data = nullptr \/ S.vec[v].data # S.vec[w].data

\* C6: after copy construction or copy assignment v = w the two own
\* different buffers, and a later mutation of one (a write through
\* operator[], push_back, pop_back, resize, clear) leaves the size, the
\* capacity and every element of the other unchanged.
C6_CopyIndependent ==
  \A v \in Objs, w \in Objs : (v # w /\ IsVector(w)) =>
    /\ IsNone(v) => \A S \in vector_copy(Cur, v, w) : OwnBuffers(S, v, w)
    /\ IsVector(v) => \A S \in assign_copy(Cur, v, w) : OwnBuffers(S, v, w)
    /\ IsVector(v) => \A S \in Mutations(v) :
         /\ S.vec[w] = vec[w]
         /\ Elems(S, w) = Elems(Cur, w)

\* b = a has just copied two elements into a buffer of b's own.
C6_Witness ==
  /\ last.op = "assign_copy"
  /\ IsVector("a") /\ IsVector("b")
  /\ size(Cur, "a") = 2
  /\ Elems(Cur, "b") = Elems(Cur, "a")
  /\ vec["a"].data # nullptr /\ vec["b"].data # nullptr
  /\ vec["a"].data # vec["b"].data

\* C7: copy self-assignment v = v leaves a non-empty v unchanged: the same
\* buffer, size, capacity and elements, no element destroyed, no buffer
\* allocated or freed.
C7_SelfAssignKeeps ==
  [][\A v \in Objs :
       (last'.op = "assign_copy" /\ ~empty(Cur, v) /\ AssignCopy(v, v))
       => /\ vec' = vec
          /\ heap' = heap
          /\ last'.ev.destroy = 0
          /\ last'.ev.allocate = 0
          /\ last'.ev.deallocate = 0]_vars

\* v = v has just run on a vector of two elements.
C7_Witness ==
  /\ last.op = "assign_copy"
  /\ IsVector("a")
  /\ size(Cur, "a") = 2
  /\ subscript(Cur, "a", 0) # subscript(Cur, "a", 1)

\* C8: after copy construction from rhs or copy assignment v = rhs, for
\* every prior size and capacity of v, v.size() == rhs.size(), v[i] ==
\* rhs[i] for every i < rhs.size(), and rhs is unchanged.
C8_CopyEquals ==
  [][\A v \in Objs, rhs \in Objs :
       (last'.op \in {"vector_copy", "assign_copy"}
          /\ (VectorCopy(v, rhs) \/ AssignCopy(v, rhs)))
       => /\ size(After, v) = size(Cur, rhs)
          /\ \A i \in 0..(size(Cur, rhs) - 1) :
               subscript(After, v, i) = subscript(Cur, rhs, i)
          /\ v # rhs => vec'[rhs] = vec[rhs]
          /\ Elems(After, rhs) = Elems(Cur, rhs)]_vars

\* A copy assignment into sufficient capacity from a longer rhs: it has
\* assigned over the receiver's element and constructed the tail.
C8_Witness ==
  /\ last.op = "assign_copy"
  /\ last.ev.assign = 1
  /\ last.ev.construct = 1
  /\ last.ev.allocate = 0

\* C9: pop_back on a non-empty vector destroys exactly the last element
\* and decreases size() by 1, leaving capacity, buffer and the elements
\* before it unchanged; on an empty vector, and so stack::pop on an empty
\* stack, it changes nothing and destroys nothing.
C9_PopBack ==
  [][\A v \in Objs :
       (last'.op \in {"pop_back", "pop"} /\ (PopBack(v) \/ Pop(v)))
       => IF size(Cur, v) > 0
          THEN /\ vec' = [vec EXCEPT ![v].numElements = @ - 1]
               /\ heap' = [heap EXCEPT ![vec[v].data].slots[size(Cur, v)] = Raw]
               /\ \A i \in 0..(size(Cur, v) - 2) :
                    subscript(After, v, i) = subscript(Cur, v, i)
               /\ last'.ev = [ZeroEv EXCEPT !.destroy = 1]
          ELSE /\ vec' = vec
               /\ heap' = heap
               /\ last'.ev = ZeroEv]_vars

\* pop() has just run on an empty stack.
C9_Witness ==
  /\ IsStack("a")
  /\ last.op = "pop"
  /\ last.ev = ZeroEv
  /\ stack_empty(Cur, "a")

\* C10: reserve(newCapacity) changes nothing when newCapacity <=
\* capacity(); otherwise capacity() becomes newCapacity exactly, size() and
\* the elements and their order are unchanged, every live element was moved
\* to the new buffer and its old slot destroyed once, and the old buffer is
\* freed.
C10_Reserve ==
  [][\A v \in Objs, n \in 0..MaxCap :
       (last'.op = "reserve" /\ Reserve(v, n))
       => IF n <= capacity(Cur, v)
          THEN /\ vec' = vec
               /\ heap' = heap
               /\ last'.ev = ZeroEv
          ELSE /\ capacity(After, v) = n
               /\ size(After, v) = size(Cur, v)
               /\ Elems(After, v) = Elems(Cur, v)
               /\ vec'[v].data # nullptr
               /\ vec'[v].data # vec[v].data
               /\ Len(heap'[vec'[v].data].slots) = n
               /\ last'.ev.allocate = 1
               /\ last'.ev.construct = size(Cur, v)
               /\ last'.ev.destroy = size(Cur, v)
               /\ last'.ev.assign = 0
               /\ vec[v].data # nullptr =>
                    (~heap'[vec[v].data].live /\ last'.ev.deallocate = 1)]_vars

\* reserve has just moved two elements to a larger buffer.
C10_Witness ==
  /\ last.op = "reserve"
  /\ last.ev.construct = 2
  /\ last.ev.destroy = 2
  /\ last.ev.deallocate = 1
  /\ capacity(Cur, "a") > 2

\* What resize(n) or resize(n, t) has to have done to v in the step just
\* taken, t being the value of the new elements.
ResizePost(v, n, t) ==
  /\ size(After, v) = n
  /\ \A i \in 0..(n - 1) :
       subscript(After, v, i) =
         IF i < size(Cur, v) THEN subscript(Cur, v, i) ELSE t
  /\ last'.ev.assign = 0
  /\ IF n <= size(Cur, v)
     THEN /\ vec' = [vec EXCEPT ![v].numElements = n]
          /\ \A p \in Addrs : heap'[p] =
               IF p = vec[v].data
               THEN [heap[p] EXCEPT !.slots =
                       [i \in DOMAIN @ |->
                          IF i > n /\ i <= size(Cur, v) THEN Raw ELSE @[i]]]
               ELSE heap[p]
          /\ last'.ev = [ZeroEv EXCEPT !.destroy = size(Cur, v) - n]
     ELSE /\ capacity(After, v) =
               IF n > capacity(Cur, v) THEN n ELSE capacity(Cur, v)
          /\ n <= capacity(Cur, v) =>
               /\ vec'[v].data = vec[v].data
               /\ last'.ev = [ZeroEv EXCEPT !.construct = n - size(Cur, v)]
          /\ n > capacity(Cur, v) =>
               /\ last'.ev.allocate = 1
               /\ last'.ev.construct = n
               /\ last'.ev.destroy = size(Cur, v)

\* C11: resize(newCount) and resize(newCount, fill) end with size() ==
\* newCount; shrinking destroys exactly the elements [newCount, oldCount)
\* and keeps the capacity; growing keeps the elements [0, oldCount), makes
\* the elements [oldCount, newCount) default-valued (or equal to fill), and
\* makes the capacity newCount only if newCount exceeded the old capacity.
C11_Resize ==
  [][\A v \in Objs, n \in 0..MaxCap :
       /\ (last'.op = "resize" /\ Resize(v, n)) => ResizePost(v, n, DefaultT)
       /\ \A t \in Vals :
            (last'.op = "resize" /\ ResizeFill(v, n, t)) => ResizePost(v, n, t)]_vars

\* resize has just grown two elements to four in a new buffer, and the two
\* new elements hold the fill value, which is not the default.
C11_Witness ==
  /\ IsVector("a")
  /\ last.op = "resize"
  /\ last.ev.allocate = 1
  /\ last.ev.destroy = 2
  /\ size(Cur, "a") = 4
  /\ subscript(Cur, "a", 0) # subscript(Cur, "a", 1)
  /\ subscript(Cur, "a", 2) # DefaultT
  /\ subscript(Cur, "a", 3) = subscript(Cur, "a", 2)

\* What shrink_to_fit has to have done to v in the step just taken.
ShrinkPost(v) ==
  /\ capacity(After, v) = size(After, v)
  /\ size(After, v) = size(Cur, v)
  /\ Elems(After, v) = Elems(Cur, v)
  /\ size(Cur, v) = 0 => (vec'[v].data = nullptr /\ capacity(After, v) = 0)
  /\ capacity(Cur, v) = size(Cur, v) =>
       (vec' = vec /\ heap' = heap /\ last'.ev = ZeroEv)

\* C12: after shrink_to_fit(), capacity() == size() with the live elements
\* and their order kept; a vector of size 0 ends with a null buffer and
\* capacity 0; when the capacity already equals the size nothing changes.
C12_ShrinkToFit ==
  [][\A v \in Objs :
       (last'.op = "shrink_to_fit" /\ ShrinkToFit(v)) => ShrinkPost(v)]_vars

\* C13: when the allocation fails in reserve, in the growth of push_back or
\* resize, in shrink_to_fit or in copy assignment, the failure leaves the
\* vector owning its old buffer with its old count, capacity and elements:
\* the old buffer is not released before the new one is there, nothing is
\* leaked and nothing dangles.
C13_AllocFailureSafe ==
  [][\A v \in Objs :
       (last'.op = "bad_alloc" /\ IsVector(v) /\ vec'[v].kind = "thrown")
       => /\ vec'[v].data = vec[v].data
          /\ vec'[v].numElements = vec[v].numElements
          /\ vec'[v].numCapacity = vec[v].numCapacity
          /\ heap' = heap]_vars

\* The live vectors that hold buffer p.
Owners(p) == {v \in Objs : IsVector(v) /\ vec[v].data = p}

\* The buffers allocated and not freed.
LiveBuffers == {p \in Addrs : heap[p].live}

\* Every buffer allocated and not freed is held by exactly one live vector
\* and no live vector holds a freed buffer.
ExclusiveOwnership ==
  /\ \A p \in LiveBuffers : Cardinality(Owners(p)) = 1
  /\ \A v \in Objs :
       (IsVector(v) /\ vec[v].data # nullptr) => vec[v].data \in LiveBuffers

AllocFollowsData ==
  \A v \in Objs :
    (IsVector(v) /\ vec[v].data # nullptr) => heap[vec[v].data].by = vec[v].alloc

\* C15: after copy construction the new vector's allocator is the source's
\* allocator, after move construction the destination holds the source's
\* allocator together with the source's buffer, and so every buffer is
\* deallocated by the allocator that allocated it.
C15_AllocatorFollowsData ==
  [][/\ \A v \in Objs, rhs \in Objs :
          (last'.op \in {"vector_copy", "vector_move"}
             /\ (VectorCopy(v, rhs) \/ VectorMove(v, rhs)))
          => vec'[v].alloc = vec[rhs].alloc
     /\ AllocFollowsData']_vars

\* C16: stack::swap(rhs) leaves each stack with the other's former buffer,
\* count, capacity and allocator, which is the result of vector::swap on
\* the two containers, with no element constructed or destroyed and no
\* buffer allocated or freed; a second swap restores both stacks.
C16_StackSwap ==
  [][\A s \in Objs, rhs \in Objs :
       (last'.op = "stack_swap" /\ StackSwap(s, rhs))
       => /\ vec'[s] = vec[rhs]
          /\ vec'[rhs] = vec[s]
          /\ heap' = heap
          /\ \E V \in swap(Cur, s, rhs) : V.vec = vec' /\ V.heap = heap'
          /\ last'.ev = ZeroEv
          /\ \A S2 \in stack_swap(After, s, rhs) :
               S2.vec = vec /\ S2.heap = heap]_vars

\* Two stacks holding different numbers of elements have just been swapped,
\* one of them built from a vector of no elements.
C16_Witness ==
  /\ last.op = "stack_swap"
  /\ IsStack("a") /\ IsStack("b")
  /\ size(Cur, "a") = 2
  /\ size(Cur, "b") = 0
  /\ vec["b"].data # nullptr

\* The least k with n <= 2^k.
RECURSIVE CeilLog2(_)
CeilLog2(n) == IF n <= 1 THEN 0 ELSE 1 + CeilLog2((n + 1) \div 2)

\* C17: n >= 1 push_back calls on an initially empty vector, or n pushes on
\* an initially empty stack, make at most ceil(log2 n) + 1 reallocations.
C17_FewReallocations ==
  LET n == Len(shadow["a"]) IN
  n >= 1 => /\ size(Cur, "a") = n
            /\ last.ev.allocate <= CeilLog2(n) + 1

\* Five pushes have made four reallocations, as many as the bound allows.
C17_Witness ==
  /\ Len(shadow["a"]) = 5
  /\ last.ev.allocate = 4
  /\ capacity(Cur, "a") = 8

\* What push_back(t) has to have done to v in the step just taken.
PushBackPost(v, t) ==
  /\ size(After, v) = size(Cur, v) + 1
  /\ subscript(After, v, size(Cur, v)) = t
  /\ \A i \in 0..(size(Cur, v) - 1) :
       subscript(After, v, i) = subscript(Cur, v, i)
  /\ IF capacity(Cur, v) = size(Cur, v)
     THEN /\ last'.ev.allocate = 1
          /\ capacity(After, v) =
               IF capacity(Cur, v) = 0 THEN 1 ELSE 2 * capacity(Cur, v)
     ELSE /\ last'.ev.allocate = 0
          /\ last'.ev.deallocate = 0
          /\ capacity(After, v) = capacity(Cur, v)
          /\ vec'[v].data = vec[v].data

\* C18: push_back, either overload, reallocates only when capacity() ==
\* size() before the call, and then the new capacity is 1 if the old was 0
\* and twice the old otherwise; in every case the new value is at index
\* oldSize, size() grows by 1 and the elements [0, oldSize) are unchanged.
C18_PushBackDoubles ==
  [][\A v \in Objs, t \in Vals :
       (last'.op = "push_back"
          /\ (PushBack(v, t, MaxCap) \/ PushBackMove(v, t, MaxCap)))
       => PushBackPost(v, t)]_vars

\* push_back has just doubled a full buffer of two elements.
C18_Witness ==
  /\ IsVector("a")
  /\ last.op = "push_back"
  /\ last.ev.allocate = 1
  /\ last.ev.construct = 3
  /\ size(Cur, "a") = 3
  /\ capacity(Cur, "a") = 4

\* The number of slots of the buffer v holds in S.
Slots(S, v) ==
  IF S.vec[v].data = nullptr THEN 0 ELSE Len(S.heap[S.vec[v].data].slots)

\* C19: a copy does not inherit the source's spare capacity: copy
\* construction from rhs gives capacity() == rhs.size(), with a null buffer
\* when rhs is empty; copy assignment gives capacity() == rhs.size() when
\* the receiver's capacity was smaller than rhs.size() and otherwise leaves
\* the receiver's capacity and buffer as they were.
C19_CopyCapacity ==
  [][\A v \in Objs, rhs \in Objs :
       /\ (last'.op = "vector_copy" /\ VectorCopy(v, rhs))
          => /\ capacity(After, v) = size(Cur, rhs)
             /\ Slots(After, v) = size(Cur, rhs)
             /\ size(Cur, rhs) = 0 => vec'[v].data = nullptr
       /\ (last'.op = "assign_copy" /\ AssignCopy(v, rhs))
          => IF capacity(Cur, v) < size(Cur, rhs)
             THEN /\ capacity(After, v) = size(Cur, rhs)
                  /\ Slots(After, v) = size(Cur, rhs)
             ELSE /\ capacity(After, v) = capacity(Cur, v)
                  /\ vec'[v].data = vec[v].data
                  /\ last'.ev.allocate = 0
                  /\ last'.ev.deallocate = 0]_vars

\* A vector of one element and capacity two has just been copied: the copy
\* has capacity one.
C19_Witness ==
  /\ last.op = "vector_copy"
  /\ \E v \in Objs, w \in Objs :
       /\ IsVector(v) /\ IsVector(w)
       /\ size(Cur, w) = 1 /\ capacity(Cur, w) = 2
       /\ size(Cur, v) = 1 /\ capacity(Cur, v) = 1
       /\ subscript(Cur, v, 0) = subscript(Cur, w, 0)

\* The step just taken has changed the address of the live elements of v:
\* v has elements before and after it, in different buffers.
ElementsMoved(v) ==
  /\ IsVector(v) /\ vec'[v].kind = "vector"
  /\ size(Cur, v) > 0 /\ size(After, v) > 0
  /\ vec'[v].data # vec[v].data

\* C20 as stated: across all public operations the address of a live
\* element changes only inside reserve, the reserve calls of push_back and
\* resize included; no other operation replaces the buffer of a vector
\* while its elements are live.
C20_OnlyReserveMoves ==
  [][\A v \in Objs :
       ElementsMoved(v) => last'.op \in {"reserve", "push_back", "resize"}]_vars

\* C20, amended: the address of a live element changes only in reserve
\* (called directly, by push_back on a full buffer or by resize beyond the
\* capacity), in shrink_to_fit of a vector with spare capacity, in copy
\* assignment into a capacity smaller than rhs.size(), and in move
\* assignment and swap, which hand buffers over; every other operation
\* keeps the buffer.
C20_ReallocationPaths ==
  [][\A v \in Objs :
       ElementsMoved(v) =>
         \/ /\ last'.op = "reserve"
            /\ capacity(After, v) > capacity(Cur, v)
         \/ /\ last'.op = "push_back"
            /\ capacity(Cur, v) = size(Cur, v)
         \/ /\ last'.op = "resize"
            /\ capacity(Cur, v) < size(After, v)
         \/ /\ last'.op = "shrink_to_fit"
            /\ capacity(Cur, v) > size(Cur, v)
         \/ /\ last'.op = "assign_copy"
            /\ capacity(Cur, v) < size(After, v)
         \/ last'.op \in {"assign_move", "swap"}]_vars

\* shrink_to_fit has just moved the one element of b to a buffer of one
\* slot and freed the larger buffer.
C20_Witness ==
  /\ IsVector("b")
  /\ last.op = "shrink_to_fit"
  /\ last.ev.allocate = 1
  /\ last.ev.deallocate = 1
  /\ last.ev.construct = 1
  /\ size(Cur, "b") = 1
  /\ capacity(Cur, "b") = 1

\* What v = move(v) has to have done to v in the step just taken.
SelfMovePost(v) ==
  /\ size(After, v) = 0
  /\ capacity(After, v) = 0
  /\ vec'[v].data = nullptr
  /\ last'.ev.destroy = size(Cur, v)
  /\ last'.ev.construct = 0 /\ last'.ev.assign = 0 /\ last'.ev.allocate = 0
  /\ vec[v].data # nullptr =>
       (~heap'[vec[v].data].live /\ last'.ev.deallocate = 1)
  /\ vec[v].data = nullptr => last'.ev.deallocate = 0

\* C21: self move-assignment v = move(v) does not keep v's contents: it
\* leaves v empty (size 0, capacity 0, null buffer), with each former
\* element destroyed exactly once and the former buffer freed exactly once.
C21_SelfMoveEmpties ==
  [][\A v \in Objs :
       (last'.op = "assign_move" /\ AssignMove(v, v)) => SelfMovePost(v)]_vars

====
